---- MODULE Spec2Model ----
(***************************************************************************)
(* Model of the finance data system (finance_data_system_elastic.py and    *)
(* start_production.py): the Elasticsearch gateway, the analysis routines, *)
(* the HTTP handlers, the APScheduler job registry and process startup.    *)
(***************************************************************************)
EXTENDS Integers, Sequences, FiniteSets, TLC

VARIABLES
    pc,            \* position of the process: boot .. serving, aborted, crashed
    path,          \* entry point: "start" (FinanceDataSystem.start) or "main" (start_production.main)
    served,        \* the API has answered a request
    existing,      \* collections (indices) that exist in the store
    existing0,     \* the collections that existed when the process booted
    ci,            \* position of _create_indices in its loop over `indices`
    schemaRuns,    \* completed runs of _create_indices
    existingAfter1,\* the collections that existed when the first run completed
    failed1,       \* a store call of the first run raised
    badCreates,    \* create calls issued for a collection that existed
    surfaced,      \* an exception left _create_indices
    pending,       \* scheduler._pending_jobs: jobs added while the scheduler is stopped
    jobstore,      \* the scheduler's job store: job id -> job
    schedState,    \* "stopped" or "running"
    lastReg,       \* the last add_job call and what it did
    now,           \* the half-hour slot of the scheduler's last wake-up
    running,       \* job ids whose action is executing in the executor's pool
    failedJobs,    \* job ids whose action has raised at least once
    last           \* the last gateway call / HTTP request and what it returned

procVars   == <<pc, path, served>>
schemaVars == <<existing, existing0, ci, schemaRuns, existingAfter1, failed1,
                badCreates, surfaced>>
schedVars  == <<pending, jobstore, schedState, lastReg, now, running, failedJobs>>

vars == <<procVars, schemaVars, schedVars, last>>

----------------------------------------------------------------------------
(* Bounds of the model *)

MaxDocs == 2       \* longest document list handed to bulk_insert directly
MaxHits == 2       \* longest hit list the store returns to a search
MaxRuns == 2       \* runs of _create_indices against the same store
MaxExtraJobs == 2  \* add_job calls made after _setup_scheduled_tasks
MaxCount == 10     \* most items of one kind in the news read for a sentiment label

----------------------------------------------------------------------------
(* Python values that the claims distinguish *)

PyNone == [t |-> "None"]
PyInt(n) == [t |-> "int", v |-> n]
PyList(s) == [t |-> "list", v |-> s]
PyTuple(a, b) == [t |-> "tuple", first |-> a, second |-> b]

RECURSIVE SeqsUpTo(_, _)
SeqsUpTo(S, n) ==
    IF n = 0 THEN {<<>>}
    ELSE LET shorter == SeqsUpTo(S, n - 1)
         IN  shorter \cup {Append(s, x) : s \in {q \in shorter : Len(q) = n - 1}, x \in S}

----------------------------------------------------------------------------
(* The store as the gateway sees it *)

\* the five collections of _create_indices, in the order of the dict
indices == <<"sina_live_data", "eastmoney_newstock_data", "eastmoney_industry_data",
             "analysis_results", "trading_strategies">>

Fixed == {indices[i] : i \in 1..Len(indices)}

\* what helpers.bulk can do with n actions: a transport exception, or one
\* ok/failed flag per action
BulkOutcomes(n) == {[exc |-> TRUE, ok |-> <<>>]} \cup
                   {[exc |-> FALSE, ok |-> f] : f \in [1..n -> BOOLEAN]}

\* helpers.bulk(client, actions, raise_on_error=False) returns the number of
\* successes and the LIST of error items (one per failed action)
RECURSIVE ErrorItems(_)
ErrorItems(ok) ==
    IF ok = <<>> THEN <<>>
    ELSE (IF Head(ok) THEN <<>> ELSE <<"error_item">>) \o ErrorItems(Tail(ok))

helpers_bulk(out) == [success |-> Cardinality({i \in DOMAIN out.ok : out.ok[i]}),
                      errors  |-> ErrorItems(out.ok)]

\* Keywords whose occurrence in a content string the code tests (kw in content);
\* a string content is modelled by the set of keywords that occur in it.
\*   lihao 利好  shangzhang 上涨  tupo 突破  chuangxingao 创新高
\*   likong 利空  xiadie 下跌  powei 破位  chuangxindi 创新低
Doc(isStr, kws) == [str |-> isStr, kws |-> kws]

\* the stored documents the model draws hits from; the last one carries a
\* content that is not a string (JSON null), which the store accepts
SampleDocs == {Doc(TRUE, {}), Doc(TRUE, {"lihao"}), Doc(TRUE, {"likong"}),
               Doc(TRUE, {"chuangxingao"}), Doc(TRUE, {"lihao", "xiadie"}),
               Doc(FALSE, {})}

\* rows of eastmoney_newstock_data: the routines read only how many there are
NewstockRows == {Doc(TRUE, {})}

Min(a, b) == IF a < b THEN a ELSE b

\* what es.search can do: raise, answer without the hits key, or answer with
\* at most `size` hits
SearchOutcomes(docs, size) ==
    {[kind |-> "exc", hits |-> <<>>], [kind |-> "malformed", hits |-> <<>>]} \cup
    {[kind |-> "ok", hits |-> h] : h \in SeqsUpTo(docs, Min(size, MaxHits))}

----------------------------------------------------------------------------
(* ElasticsearchClient *)

\* bulk_insert(index, documents): ret is the Python value returned, calls the
\* number of calls made to the store, raised whether an exception left it
bulk_insert(index, documents, out) ==
    IF documents = <<>>
    THEN [ret |-> PyNone, calls |-> 0, raised |-> FALSE,
          index |-> index, docs |-> documents]
    ELSE IF out.exc
    THEN [ret |-> PyTuple(PyInt(0), PyInt(Len(documents))), calls |-> 1,
          raised |-> FALSE, index |-> index, docs |-> documents]
    ELSE [ret |-> PyTuple(PyInt(helpers_bulk(out).success),
                          PyList(helpers_bulk(out).errors)),
          calls |-> 1, raised |-> FALSE, index |-> index, docs |-> documents]

\* search without its try/except: the store's exception leaves the gateway
search_propagates(index, size, out) ==
    IF out.kind = "ok"
    THEN [ret |-> out.hits, raised |-> FALSE]
    ELSE [ret |-> <<>>, raised |-> TRUE]

\* search(index, query, size): every exception of the read, the missing key of
\* a malformed answer included, is caught and turned into []
search(index, size, out) ==
    IF out.kind = "ok"
    THEN [ret |-> out.hits, raised |-> FALSE]
    ELSE [ret |-> <<>>, raised |-> FALSE]

----------------------------------------------------------------------------
(* DataAnalyzer *)

PositiveKeywords == {"lihao", "shangzhang", "tupo", "chuangxingao"}
NegativeKeywords == {"likong", "xiadie", "powei", "chuangxindi"}

\* `kw in item.get('content', '')` raises TypeError when the content is not a
\* string; the generator of sum(...) visits every item
AnyNonString(data) == \E i \in DOMAIN data : ~data[i].str

Matching(data, keywords) ==
    Cardinality({i \in DOMAIN data : data[i].kws \cap keywords # {}})

\* the thresholds taken inclusive: positive_count >= negative_count * 1.5
SentimentLabel_inclusive(positive_count, negative_count) ==
    IF 2 * positive_count >= 3 * negative_count THEN "bullish"
    ELSE IF 2 * negative_count >= 3 * positive_count THEN "bearish"
    ELSE "neutral"

\* positive_count > negative_count * 1.5, in integers
SentimentLabel(positive_count, negative_count) ==
    IF 2 * positive_count > 3 * negative_count THEN "bullish"
    ELSE IF 2 * negative_count > 3 * positive_count THEN "bearish"
    ELSE "neutral"

_analyze_market_sentiment(data) ==
    IF data = <<>> THEN [raised |-> FALSE, value |-> "neutral"]
    ELSE IF AnyNonString(data) THEN [raised |-> TRUE, value |-> "TypeError"]
    ELSE [raised |-> FALSE,
          value |-> SentimentLabel(Matching(data, PositiveKeywords),
                                   Matching(data, NegativeKeywords))]

_summarize_news(data) ==
    IF data = <<>> THEN "no_important_news" ELSE "news_summary"

\* round(count / len(data), 2) in hundredths, ties to even
RoundedRatio(count, n) ==
    LET q == (100 * count) \div n
        r == (100 * count) % n
    IN  IF 2 * r > n THEN q + 1
        ELSE IF 2 * r = n THEN (IF q % 2 = 0 THEN q ELSE q + 1)
        ELSE q

RatioKeywords(sentiment) ==
    IF sentiment = "positive" THEN {"lihao", "shangzhang", "tupo"}
    ELSE IF sentiment = "negative" THEN {"likong", "xiadie", "powei"}
    ELSE {}

_calculate_sentiment_ratio(data, sentiment) ==
    IF data = <<>> THEN [raised |-> FALSE, value |-> 0]
    ELSE IF AnyNonString(data) THEN [raised |-> TRUE, value |-> 0]
    ELSE [raised |-> FALSE,
          value |-> RoundedRatio(Matching(data, RatioKeywords(sentiment)), Len(data))]

\* what a routine did: raised, the bulk_insert calls it made (index and
\* documents, in order), and the value it returned
Raised == [raised |-> TRUE, writes |-> <<>>, ret |-> PyNone]
Wrote(index, artifact, out) ==
    [raised |-> bulk_insert(index, <<artifact>>, out).raised,
     writes |-> <<[index |-> index, docs |-> <<artifact>>]>>,
     ret    |-> artifact]

\* env: the store's answers to the calls of one invocation, in order
RoutineEnvs ==
    [s1 : SearchOutcomes(SampleDocs, 50), s2 : SearchOutcomes(NewstockRows, 10),
     b : BulkOutcomes(1)]

generate_pre_market_strategy(env) ==
    LET read1         == search("sina_live_data", 50, env.s1)
        read2         == search("eastmoney_newstock_data", 10, env.s2)
        sina_data     == read1.ret
        newstock_data == read2.ret
        sentiment     == _analyze_market_sentiment(sina_data)
    IN  IF read1.raised \/ read2.raised \/ sentiment.raised THEN Raised
        ELSE Wrote("trading_strategies",
                   [type |-> "pre_market_strategy", strategy |-> sentiment.value,
                    risk_level |-> "medium", confidence |-> 75,
                    news_count |-> Len(sina_data),
                    newstock_count |-> Len(newstock_data)],
                   env.b)

analyze_opening_news(env) ==
    LET read     == search("sina_live_data", 100, env.s1)
        data     == read.ret
        positive == _calculate_sentiment_ratio(data, "positive")
        negative == _calculate_sentiment_ratio(data, "negative")
    IN  IF read.raised \/ positive.raised \/ negative.raised THEN Raised
        ELSE Wrote("analysis_results",
                   [analysis_type |-> "opening_news", content |-> _summarize_news(data),
                    data_source |-> "sina_live_data", total_news |-> Len(data),
                    positive_ratio |-> positive.value,
                    negative_ratio |-> negative.value],
                   env.b)

analyze_dragon_tiger_list(env) ==
    Wrote("analysis_results",
          [analysis_type |-> "dragon_tiger_list", data_source |-> "external_api",
           hot_stocks_count |-> 10, institutional_buy |-> 5,
           institutional_sell |-> 3],
          env.b)

analyze_northbound_capital(env) ==
    Wrote("analysis_results",
          [analysis_type |-> "northbound_capital", data_source |-> "external_api",
           net_inflow |-> "5000000000"],
          env.b)

analyze_closing_summary(env) ==
    LET read     == search("sina_live_data", 500, env.s1)
        all_data == read.ret
    IN  IF read.raised THEN Raised
        ELSE
        Wrote("analysis_results",
              [analysis_type |-> "closing_summary", data_source |-> "multiple",
               total_news |-> Len(all_data), market_sentiment |-> "positive"],
              env.b)

Routines == {"generate_pre_market_strategy", "analyze_opening_news",
             "analyze_dragon_tiger_list", "analyze_northbound_capital",
             "analyze_closing_summary"}

\* a call of the bound method named `routine`
Invoke(routine, env) ==
    CASE routine = "generate_pre_market_strategy" -> generate_pre_market_strategy(env)
      [] routine = "analyze_opening_news"         -> analyze_opening_news(env)
      [] routine = "analyze_dragon_tiger_list"    -> analyze_dragon_tiger_list(env)
      [] routine = "analyze_northbound_capital"   -> analyze_northbound_capital(env)
      [] routine = "analyze_closing_summary"      -> analyze_closing_summary(env)

----------------------------------------------------------------------------
(* HTTP handlers of _setup_routes *)

\* the dispatch table of execute_task
tasks == [pre_market   |-> "generate_pre_market_strategy",
          opening_news |-> "analyze_opening_news",
          dragon_tiger |-> "analyze_dragon_tiger_list",
          northbound   |-> "analyze_northbound_capital",
          closing      |-> "analyze_closing_summary"]

\* task names a client may send: the five known ones, a job id and a typo
TaskNames == DOMAIN tasks \cup {"pre_market_strategy", "closing_summary", ""}

NoRun == [raised |-> FALSE, writes |-> <<>>, ret |-> PyNone]

\* execute_task without the membership test: the lookup of an unknown name
\* raises KeyError inside the try and is answered 500
execute_task_no_check(task_name, env) ==
    IF task_name \notin DOMAIN tasks
    THEN [status |-> 500, success |-> FALSE, data |-> PyNone,
          ran |-> <<>>, run |-> NoRun]
    ELSE LET result == Invoke(tasks[task_name], env)
         IN  IF result.raised
             THEN [status |-> 500, success |-> FALSE, data |-> PyNone,
                   ran |-> <<tasks[task_name]>>, run |-> result]
             ELSE [status |-> 200, success |-> TRUE, data |-> result.ret,
                   ran |-> <<tasks[task_name]>>, run |-> result]

execute_task(task_name, env) ==
    IF task_name \notin DOMAIN tasks
    THEN [status |-> 400, success |-> FALSE, data |-> PyNone,
          ran |-> <<>>, run |-> NoRun]
    ELSE LET result == Invoke(tasks[task_name], env)
         IN  IF result.raised
             THEN [status |-> 500, success |-> FALSE, data |-> PyNone,
                   ran |-> <<tasks[task_name]>>, run |-> result]
             ELSE [status |-> 200, success |-> TRUE, data |-> result.ret,
                   ran |-> <<tasks[task_name]>>, run |-> result]

get_pre_market_strategy(env) ==
    LET result == generate_pre_market_strategy(env)
    IN  IF result.raised
        THEN [status |-> 500, success |-> FALSE, data |-> PyNone,
              ran |-> <<"generate_pre_market_strategy">>, run |-> result]
        ELSE [status |-> 200, success |-> TRUE, data |-> result.ret,
              ran |-> <<"generate_pre_market_strategy">>, run |-> result]

\* search_data(index): hasJson is whether the request carries a JSON body
\* (request.json.get raises without one, inside the handler's try)
search_data(index, hasJson, out) ==
    IF ~hasJson
    THEN [status |-> 500, success |-> FALSE, data |-> <<>>, count |-> 0]
    ELSE LET results == search(index, 10, out)
         IN  IF results.raised
             THEN [status |-> 500, success |-> FALSE, data |-> <<>>, count |-> 0]
             ELSE [status |-> 200, success |-> TRUE, data |-> results.ret,
                   count |-> Len(results.ret)]

----------------------------------------------------------------------------
(* ElasticsearchClient._create_indices *)

\* the store's part in one iteration of the loop
SchemaOutcomes == {"ok", "exists_raises", "create_raises"}

\* the loop body without the exists test: create is called for every index
CreateStep_no_check(index_name, ex, out) ==
    IF out = "exists_raises"
    THEN [existing |-> ex, createCall |-> FALSE, failed |-> TRUE, surfaced |-> FALSE]
    ELSE IF index_name \in ex \/ out = "create_raises"
    THEN [existing |-> ex, createCall |-> TRUE, failed |-> TRUE, surfaced |-> FALSE]
    ELSE [existing |-> ex \cup {index_name}, createCall |-> TRUE, failed |-> FALSE,
          surfaced |-> FALSE]

\* one iteration of the loop of _create_indices over index_name, with the
\* collections `ex` existing: exists, then create if absent; every exception
\* is logged and the loop goes on
CreateStep(index_name, ex, out) ==
    IF out = "exists_raises"
    THEN [existing |-> ex, createCall |-> FALSE, failed |-> TRUE, surfaced |-> FALSE]
    ELSE IF index_name \notin ex
    THEN IF out = "create_raises"
         THEN [existing |-> ex, createCall |-> TRUE, failed |-> TRUE,
               surfaced |-> FALSE]
         ELSE [existing |-> ex \cup {index_name}, createCall |-> TRUE,
               failed |-> FALSE, surfaced |-> FALSE]
    ELSE [existing |-> ex, createCall |-> FALSE, failed |-> FALSE, surfaced |-> FALSE]

CreateIndexStep ==
    /\ pc = "create_indices"
    /\ ci <= Len(indices)
    /\ \E out \in SchemaOutcomes :
         LET step == CreateStep(indices[ci], existing, out)
         IN  /\ existing' = step.existing
             /\ badCreates' = IF step.createCall /\ indices[ci] \in existing
                              THEN badCreates \cup {indices[ci]} ELSE badCreates
             /\ failed1' = (failed1 \/ (schemaRuns = 0 /\ step.failed))
             /\ surfaced' = (surfaced \/ step.surfaced)
    /\ ci' = ci + 1
    /\ UNCHANGED <<procVars, existing0, schemaRuns, existingAfter1, schedVars, last>>

\* the loop is over: _create_indices returns to __init__
FinishCreateIndices ==
    /\ pc = "create_indices"
    /\ ci > Len(indices)
    /\ schemaRuns' = schemaRuns + 1
    /\ existingAfter1' = IF schemaRuns = 0 THEN existing ELSE existingAfter1
    /\ pc' = "setup"
    /\ UNCHANGED <<path, served, existing, existing0, ci, failed1, badCreates,
                   surfaced, schedVars, last>>

----------------------------------------------------------------------------
(* DataCrawler.crawl_sina_live, the action of the hourly job *)

\* what requests.get and the page give: a failed fetch, or the .bd_i items,
\* each well-formed (both sub-elements present) or not
Item(wellformed, kws) == [wellformed |-> wellformed, kws |-> kws]
SampleItems == {Item(TRUE, {}), Item(TRUE, {"lihao"}), Item(FALSE, {})}

FetchOutcomes == {[kind |-> "fail", items |-> <<>>]} \cup
                 {[kind |-> "ok", items |-> i] : i \in SeqsUpTo(SampleItems, MaxDocs)}

RECURSIVE ParsedItems(_)
ParsedItems(items) ==
    IF items = <<>> THEN <<>>
    ELSE (IF Head(items).wellformed THEN <<Doc(TRUE, Head(items).kws)>> ELSE <<>>)
         \o ParsedItems(Tail(items))

\* the crawl in which the first item that fails to parse ends the loop: the
\* exception reaches the outer handler, which returns []
crawl_sina_live_no_isolation(env) ==
    IF env.fetch.kind = "fail" \/ \E i \in DOMAIN env.fetch.items :
                                     ~env.fetch.items[i].wellformed
    THEN [raised |-> FALSE, writes |-> <<>>, ret |-> <<>>]
    ELSE LET data_list == ParsedItems(env.fetch.items)
         IN  IF data_list = <<>>
             THEN [raised |-> FALSE, writes |-> <<>>, ret |-> <<>>]
             ELSE [raised |-> FALSE,
                   writes |-> <<[index |-> "sina_live_data", docs |-> data_list]>>,
                   ret    |-> data_list]

crawl_sina_live(env) ==
    IF env.fetch.kind = "fail"
    THEN [raised |-> FALSE, writes |-> <<>>, ret |-> <<>>]
    ELSE LET data_list == ParsedItems(env.fetch.items)
         IN  IF data_list = <<>>
             THEN [raised |-> FALSE, writes |-> <<>>, ret |-> <<>>]
             ELSE [raised |-> FALSE,
                   writes |-> <<[index |-> "sina_live_data", docs |-> data_list]>>,
                   ret    |-> IF bulk_insert("sina_live_data", data_list, env.b).raised
                              THEN <<>> ELSE data_list]

(* DataCrawler.crawl_eastmoney_newstock *)

\* a row of the listings table: how many cells it has and whether the texts
\* of its price and P/E cells are numbers
Row(ncols, numeric) == [ncols |-> ncols, numeric |-> numeric]
SampleRows == {Row(5, TRUE), Row(6, TRUE), Row(6, FALSE), Row(7, TRUE)}

RowFetchOutcomes == {[kind |-> "fail", items |-> <<>>]} \cup
                    {[kind |-> "ok", items |-> i] : i \in SeqsUpTo(SampleRows, MaxDocs)}

\* float(value.replace(...)) or, on any exception, 0.0
_parse_float(numeric) == IF numeric THEN "float" ELSE "0.0"

Listing(row) == [issue_price |-> _parse_float(row.numeric),
                 pe_ratio    |-> _parse_float(row.numeric),
                 industry    |-> IF row.ncols > 6 THEN "industry" ELSE ""]

RECURSIVE ParsedRows(_)
ParsedRows(rows) ==
    IF rows = <<>> THEN <<>>
    ELSE (IF Head(rows).ncols < 6 THEN <<>> ELSE <<Listing(Head(rows))>>)
         \o ParsedRows(Tail(rows))

crawl_eastmoney_newstock(env) ==
    IF env.fetch.kind = "fail"
    THEN [raised |-> FALSE, writes |-> <<>>, ret |-> <<>>]
    ELSE LET data_list == ParsedRows(env.fetch.items)
         IN  IF data_list = <<>>
             THEN [raised |-> FALSE, writes |-> <<>>, ret |-> <<>>]
             ELSE [raised |-> FALSE,
                   writes |-> <<[index |-> "eastmoney_newstock_data",
                                 docs |-> data_list]>>,
                   ret    |-> IF bulk_insert("eastmoney_newstock_data", data_list,
                                             env.b).raised
                              THEN <<>> ELSE data_list]

(* DataCrawler.crawl_eastmoney_industry *)

industries == {"tech", "finance", "healthcare", "consumer", "industrial", "energy"}

\* a .news-item element, with or without its .title element
Article(has_title) == [has_title |-> has_title]
SampleArticles == {Article(TRUE), Article(FALSE)}

ArticleFetchOutcomes ==
    {[kind |-> "fail", items |-> <<>>]} \cup
    {[kind |-> "ok", items |-> i] : i \in SeqsUpTo(SampleArticles, MaxDocs)}

IndustryArticle(article, industry) ==
    [title    |-> IF article.has_title THEN "title" ELSE "",
     url      |-> IF article.has_title THEN "href" ELSE "",
     content  |-> "",
     industry |-> industry]

\* no statement of the loop body raises for an element of the page: every
\* article gives a document
ParsedArticles(articles, industry) ==
    [i \in DOMAIN articles |-> IndustryArticle(articles[i], industry)]

crawl_eastmoney_industry(industry, env) ==
    IF env.fetch.kind = "fail"
    THEN [raised |-> FALSE, writes |-> <<>>, ret |-> <<>>]
    ELSE LET data_list == ParsedArticles(env.fetch.items, industry)
         IN  IF data_list = <<>>
             THEN [raised |-> FALSE, writes |-> <<>>, ret |-> <<>>]
             ELSE [raised |-> FALSE,
                   writes |-> <<[index |-> "eastmoney_industry_data",
                                 docs |-> data_list]>>,
                   ret    |-> IF bulk_insert("eastmoney_industry_data", data_list,
                                             env.b).raised
                              THEN <<>> ELSE data_list]

----------------------------------------------------------------------------
(* The scheduler: BackgroundScheduler as FinanceDataSystem configures it *)

SlotsPerHour == 2
HoursPerDay == 24
Slots == SlotsPerHour * HoursPerDay

AnyHour == -1

\* a job as add_job(func, CronTrigger(hour, minute), id) makes it
Job(id, func, hour, minute) ==
    [id |-> id, func |-> func, hour |-> hour, minute |-> minute, next_run_time |-> -1]

\* the six add_job calls of _setup_scheduled_tasks, in order
SetupJobs ==
    << Job("pre_market_strategy", "generate_pre_market_strategy", 8, 0),
       Job("opening_news",        "analyze_opening_news",         9, 30),
       Job("dragon_tiger_list",   "analyze_dragon_tiger_list",    10, 0),
       Job("northbound_capital",  "analyze_northbound_capital",   11, 0),
       Job("closing_summary",     "analyze_closing_summary",      15, 0),
       Job("crawl_sina_hourly",   "crawl_sina_live",              AnyHour, 0) >>

JobIds == {SetupJobs[i].id : i \in 1..Len(SetupJobs)}

\* CronTrigger(hour, minute) fires in half-hour slot `slot` of the day
DueAt(job, slot) ==
    /\ slot % SlotsPerHour = job.minute \div 30
    /\ job.hour = AnyHour \/ slot \div SlotsPerHour = job.hour

\* how far slot b lies ahead of slot a, in 1..Slots
Dist(a, b) == ((b - a - 1 + Slots) % Slots) + 1

\* CronTrigger.get_next_fire_time: the first slot after `slot` in which the
\* job is due (a daily trigger has one slot a day, an hourly one a slot an hour)
NextFire(job, slot) ==
    IF job.hour = AnyHour
    THEN IF DueAt(job, (slot + 1) % Slots) THEN (slot + 1) % Slots
         ELSE (slot + 2) % Slots
    ELSE job.hour * SlotsPerHour + job.minute \div 30

EmptyStore == [id \in {} |-> Job("", "", 0, 0)]

Put(js, job) == [id \in DOMAIN js \cup {job.id} |-> IF id = job.id THEN job ELSE js[id]]

\* scheduler.add_job(func, trigger, id=..., name=...) as _setup_scheduled_tasks
\* calls it (replace_existing is left at its default, False): a stopped
\* scheduler queues the job; a running one stores it, or raises
\* ConflictingIdError when the id is taken
add_job(job, state, pend, js, slot) ==
    IF state = "stopped"
    THEN [pending |-> Append(pend, job), jobstore |-> js, error |-> FALSE]
    ELSE IF job.id \in DOMAIN js
    THEN [pending |-> pend, jobstore |-> js, error |-> TRUE]
    ELSE [pending  |-> pend,
          jobstore |-> Put(js, [job EXCEPT !.next_run_time = NextFire(job, slot)]),
          error    |-> FALSE]

\* scheduler.start(): the queued jobs go to the job store in order, each with
\* its first fire time; an id already stored raises ConflictingIdError out of
\* start() and the scheduler stays stopped
RECURSIVE scheduler_start(_, _, _)
scheduler_start(pend, js, slot) ==
    IF pend = <<>> THEN [jobstore |-> js, error |-> FALSE]
    ELSE IF Head(pend).id \in DOMAIN js THEN [jobstore |-> js, error |-> TRUE]
    ELSE scheduler_start(Tail(pend),
                         Put(js, [Head(pend) EXCEPT
                                     !.next_run_time = NextFire(Head(pend), slot)]),
                         slot)

\* the answers of the store and of the page to one job action
JobEnvs ==
    [s1 : {[kind |-> "exc", hits |-> <<>>],
           [kind |-> "ok", hits |-> <<Doc(TRUE, {"lihao"})>>],
           [kind |-> "ok", hits |-> <<Doc(FALSE, {})>>]},
     s2 : {[kind |-> "ok", hits |-> <<>>]},
     b  : {[exc |-> TRUE, ok |-> <<>>], [exc |-> FALSE, ok |-> <<TRUE>>]},
     fetch : {[kind |-> "fail", items |-> <<>>]}]

\* job.func(): the bound action of a job
RunJob(func, env) ==
    IF func = "crawl_sina_live" THEN crawl_sina_live(env) ELSE Invoke(func, env)

JobFuncs == Routines \cup {"crawl_sina_live"}

\* whether the action can return and whether it can raise, over JobEnvs
JobOutcomes == [func \in JobFuncs |-> {RunJob(func, env).raised : env \in JobEnvs}]

\* an executor that drops a job whose action raised
after_run_removing(js, id, raised) ==
    IF raised THEN [k \in DOMAIN js \ {id} |-> js[k]] ELSE js

\* the executor's run_job: an exception of the action is logged; the job
\* store is not touched
after_run(js, id, raised) == js

\* the default executor, a pool of ten threads, which six jobs of at most one
\* instance each never exhaust: every due job that is not still running starts
submit(due, run) == run \cup due

----------------------------------------------------------------------------
(* Process startup: FinanceDataSystem.__init__, start, start_production.main *)

\* the store at boot: every collection exists, or all but the last one
NoReg == [id |-> "", func |-> "", hadId |-> FALSE, sizeBefore |-> 0, error |-> FALSE]

StoresAtBoot == {Fixed, Fixed \ {indices[Len(indices)]}}

Init ==
    /\ pc = "boot"
    /\ path \in {"start", "main"}
    /\ served = FALSE
    /\ existing \in StoresAtBoot
    /\ existing0 = existing
    /\ ci = 1
    /\ schemaRuns = 0
    /\ existingAfter1 = {}
    /\ failed1 = FALSE
    /\ badCreates = {}
    /\ surfaced = FALSE
    /\ pending = <<>>
    /\ jobstore = EmptyStore
    /\ schedState = "stopped"
    /\ lastReg = NoReg
    /\ now = 0
    /\ running = {}
    /\ failedJobs = {}
    /\ last = [op |-> "none"]

\* ElasticsearchClient.__init__ up to _check_connection: ping answers True
CheckConnectionOk ==
    /\ pc = "boot"
    /\ pc' = "create_indices"
    /\ UNCHANGED <<path, served, schemaVars, schedVars, last>>

\* _check_connection: ping answers False or raises; the error is raised again
\* and leaves the constructor
CheckConnectionFails ==
    /\ pc = "boot"
    /\ pc' = "aborted"
    /\ UNCHANGED <<path, served, schemaVars, schedVars, last>>

\* the rest of FinanceDataSystem.__init__: crawler, analyzer, scheduler, app,
\* _setup_routes and the six add_job calls of _setup_scheduled_tasks
RECURSIVE AddAll(_, _, _, _, _)
AddAll(jobs, state, pend, js, slot) ==
    IF jobs = <<>> THEN [pending |-> pend, jobstore |-> js, error |-> FALSE]
    ELSE LET r == add_job(Head(jobs), state, pend, js, slot)
         IN  IF r.error THEN r
             ELSE AddAll(Tail(jobs), state, r.pending, r.jobstore, slot)

_setup_scheduled_tasks ==
    /\ pc = "setup"
    /\ LET r == AddAll(SetupJobs, schedState, pending, jobstore, now)
       IN  /\ pending' = r.pending
           /\ jobstore' = r.jobstore
           /\ pc' = IF r.error THEN "crashed" ELSE "constructed"
    /\ UNCHANGED <<path, served, schemaVars, schedState, lastReg, now, running,
                   failedJobs, last>>

\* start() called before the constructor has returned
CanStartScheduler_early == pc \in {"boot", "create_indices", "constructed"} /\ path = "start"

\* system.start() runs after FinanceDataSystem() has returned
CanStartScheduler == pc = "constructed" /\ path = "start"

\* FinanceDataSystem.start: self.scheduler.start(), at any time of the day
StartScheduler ==
    /\ CanStartScheduler
    /\ schedState = "stopped"
    /\ \E slot \in 0..(Slots - 1) :
         LET r == scheduler_start(pending, jobstore, slot)
         IN  /\ jobstore' = r.jobstore
             /\ now' = slot
             /\ IF r.error
                THEN /\ pc' = "crashed"
                     /\ UNCHANGED <<pending, schedState>>
                ELSE /\ pc' = "scheduler_started"
                     /\ pending' = <<>>
                     /\ schedState' = "running"
    /\ UNCHANGED <<path, served, schemaVars, lastReg, running, failedJobs, last>>

\* FinanceDataSystem.start: self.app.run(...)
AppRun ==
    /\ pc = "scheduler_started"
    /\ pc' = "serving"
    /\ UNCHANGED <<path, served, schemaVars, schedVars, last>>

\* start_production.main: serve(system.app, ...)
Serve ==
    /\ pc = "constructed"
    /\ path = "main"
    /\ pc' = "serving"
    /\ UNCHANGED <<path, served, schemaVars, schedVars, last>>

\* the server answers a request (any route of _setup_routes)
HandleRequest ==
    /\ pc = "serving"
    /\ ~served
    /\ served' = TRUE
    /\ UNCHANGED <<pc, path, schemaVars, schedVars, last>>

\* the earliest next_run_time of the job store after slot `slot`
WakeSlot(js, slot) ==
    CHOOSE t \in {js[j].next_run_time : j \in DOMAIN js} :
        \A j \in DOMAIN js : Dist(slot, t) <= Dist(slot, js[j].next_run_time)

\* the scheduler thread wakes at the next fire time of its job store and
\* submits every due job to the executor
Tick ==
    /\ schedState = "running"
    /\ DOMAIN jobstore # {}
    /\ \E wake \in {WakeSlot(jobstore, now)} :
         \E due \in {{j \in DOMAIN jobstore : jobstore[j].next_run_time = wake}} :
           /\ now' = wake
           /\ running' = submit(due, running)
           /\ jobstore' = [j \in DOMAIN jobstore |->
                             IF j \in due
                             THEN [jobstore[j] EXCEPT
                                      !.next_run_time = NextFire(jobstore[j], wake)]
                             ELSE jobstore[j]]
    /\ UNCHANGED <<procVars, schemaVars, pending, schedState, lastReg, failedJobs, last>>

\* a pool thread runs the action of a submitted job to its end
JobRun ==
    /\ \E j \in running :
         \E raised \in JobOutcomes[jobstore[j].func] :
             /\ running' = running \ {j}
             /\ failedJobs' = IF raised THEN failedJobs \cup {j} ELSE failedJobs
             /\ jobstore' = after_run(jobstore, j, raised)
    /\ UNCHANGED <<procVars, schemaVars, pending, schedState, lastReg, now, last>>

Next ==
    \/ CheckConnectionOk
    \/ CheckConnectionFails
    \/ CreateIndexStep
    \/ FinishCreateIndices
    \/ _setup_scheduled_tasks
    \/ StartScheduler
    \/ AppRun
    \/ Serve
    \/ HandleRequest
    \/ Tick
    \/ JobRun

Spec == Init /\ [][Next]_vars

----------------------------------------------------------------------------
(* _create_indices run again against the same store: SpecSchema *)

InitSchema ==
    /\ pc = "create_indices"
    /\ path = "main"
    /\ served = FALSE
    /\ existing \in SUBSET (Fixed \cup {"other_index"})
    /\ existing0 = existing
    /\ ci = 1
    /\ schemaRuns = 0
    /\ existingAfter1 = {}
    /\ failed1 = FALSE
    /\ badCreates = {}
    /\ surfaced = FALSE
    /\ pending = <<>>
    /\ jobstore = EmptyStore
    /\ schedState = "stopped"
    /\ lastReg = NoReg
    /\ now = 0
    /\ running = {}
    /\ failedJobs = {}
    /\ last = [op |-> "none"]

\* another ElasticsearchClient is constructed on the same store (the process
\* is started again): its connection check passes and _create_indices runs
Restart ==
    /\ pc = "setup"
    /\ schemaRuns < MaxRuns
    /\ pc' = "create_indices"
    /\ ci' = 1
    /\ UNCHANGED <<path, served, existing, existing0, schemaRuns, existingAfter1,
                   failed1, badCreates, surfaced, schedVars, last>>

NextSchema == CreateIndexStep \/ FinishCreateIndices \/ Restart

SpecSchema == InitSchema /\ [][NextSchema]_vars

----------------------------------------------------------------------------
(* add_job calls after _setup_scheduled_tasks: SpecRegistry *)

\* jobs a later registration may carry: two ids of _setup_scheduled_tasks and
\* a new one, each bound to one of two actions
LaterJobs ==
    {Job(id, func, 8, 0) : id \in {"pre_market_strategy", "crawl_sina_hourly", "new_job"},
                           func \in {"generate_pre_market_strategy",
                                     "analyze_closing_summary"}}

\* the constructor has returned: the six jobs are queued in the stopped scheduler
InitRegistry ==
    /\ pc = "constructed"
    /\ path = "start"
    /\ served = FALSE
    /\ existing = Fixed
    /\ existing0 = Fixed
    /\ ci = Len(indices) + 1
    /\ schemaRuns = 1
    /\ existingAfter1 = Fixed
    /\ failed1 = FALSE
    /\ badCreates = {}
    /\ surfaced = FALSE
    /\ pending = SetupJobs
    /\ jobstore = EmptyStore
    /\ schedState = "stopped"
    /\ lastReg = NoReg
    /\ now = 0
    /\ running = {}
    /\ failedJobs = {}
    /\ last = [op |-> "none"]

PendingIds == {pending[i].id : i \in 1..Len(pending)}
RegistryIds == PendingIds \cup DOMAIN jobstore
RegistrySize == Len(pending) + Cardinality(DOMAIN jobstore)

\* the actions bound to job id `id` anywhere in the registry
BoundFuncs(id) ==
    {pending[i].func : i \in {k \in 1..Len(pending) : pending[k].id = id}}
    \cup {jobstore[k].func : k \in DOMAIN jobstore \cap {id}}

\* one more self.scheduler.add_job(func, CronTrigger(...), id=..., name=...)
AddJob ==
    /\ pc \in {"constructed", "scheduler_started"}
    /\ RegistrySize < Len(SetupJobs) + MaxExtraJobs
    /\ \E job \in LaterJobs :
         LET r == add_job(job, schedState, pending, jobstore, now)
         IN  /\ pending' = r.pending
             /\ jobstore' = r.jobstore
             /\ lastReg' = [id |-> job.id, func |-> job.func,
                            hadId |-> job.id \in RegistryIds,
                            sizeBefore |-> RegistrySize, error |-> r.error]
    /\ UNCHANGED <<procVars, schemaVars, schedState, now, running, failedJobs, last>>

NextRegistry == AddJob \/ StartScheduler

SpecRegistry == InitRegistry /\ [][NextRegistry]_vars

----------------------------------------------------------------------------
(* The gateway and the API under requests: SpecApi *)

Idle == [op |-> "none"]

\* the process of start_production.main is up and serving: every collection
\* exists, nothing was asked yet
InitApi ==
    /\ pc = "serving"
    /\ path = "main"
    /\ served = FALSE
    /\ existing = Fixed
    /\ existing0 = Fixed
    /\ ci = Len(indices) + 1
    /\ schemaRuns = 1
    /\ existingAfter1 = Fixed
    /\ failed1 = FALSE
    /\ badCreates = {}
    /\ surfaced = FALSE
    /\ pending = SetupJobs
    /\ jobstore = EmptyStore
    /\ schedState = "stopped"
    /\ lastReg = NoReg
    /\ now = 0
    /\ running = {}
    /\ failedJobs = {}
    /\ last = Idle

\* a component calls es_client.bulk_insert(index, documents)
BulkInsert ==
    /\ pc = "serving"
    /\ last = Idle
    /\ \E index \in Fixed, documents \in SeqsUpTo(SampleDocs, MaxDocs) :
         \E out \in BulkOutcomes(Len(documents)) :
            last' = [op |-> "bulk_insert", n |-> Len(documents), out |-> out,
                     res |-> bulk_insert(index, documents, out)]
    /\ UNCHANGED <<procVars, schemaVars, schedVars>>

\* a component calls es_client.search(index, query, size)
Search ==
    /\ pc = "serving"
    /\ last = Idle
    /\ \E index \in Fixed, out \in SearchOutcomes(SampleDocs, MaxHits) :
         last' = [op |-> "search", index |-> index, out |-> out,
                  res |-> search(index, MaxHits, out)]
    /\ UNCHANGED <<procVars, schemaVars, schedVars>>

\* POST /api/v1/tasks/execute/<task_name>
ExecuteTask ==
    /\ pc = "serving"
    /\ last = Idle
    /\ \E task_name \in TaskNames, env \in RoutineEnvs :
         last' = [op |-> "execute_task", task_name |-> task_name, env |-> env,
                  res |-> execute_task(task_name, env)]
    /\ UNCHANGED <<procVars, schemaVars, schedVars>>

\* GET /api/v1/data/pre_market
GetPreMarketStrategy ==
    /\ pc = "serving"
    /\ last = Idle
    /\ \E env \in RoutineEnvs :
         last' = [op |-> "get_pre_market_strategy", env |-> env,
                  res |-> get_pre_market_strategy(env)]
    /\ UNCHANGED <<procVars, schemaVars, schedVars>>

\* POST /api/v1/search/<index>
SearchData ==
    /\ pc = "serving"
    /\ last = Idle
    /\ \E index \in Fixed \cup {"no_such_index"}, hasJson \in BOOLEAN,
          out \in SearchOutcomes(SampleDocs, 10) :
         last' = [op |-> "search_data", index |-> index, hasJson |-> hasJson,
                  out |-> out, res |-> search_data(index, hasJson, out)]
    /\ UNCHANGED <<procVars, schemaVars, schedVars>>

\* the caller has taken the result; the next call or request can be made
Return ==
    /\ last # Idle
    /\ last' = Idle
    /\ UNCHANGED <<procVars, schemaVars, schedVars>>

\* crawler.crawl_sina_live() is called
CrawlSinaLive ==
    /\ pc = "serving"
    /\ last = Idle
    /\ \E fetch \in FetchOutcomes :
         \E b \in BulkOutcomes(Len(ParsedItems(fetch.items))) :
            last' = [op |-> "crawl", adapter |-> "crawl_sina_live",
                     fetch |-> fetch,
                     res |-> crawl_sina_live([fetch |-> fetch, b |-> b])]
    /\ UNCHANGED <<procVars, schemaVars, schedVars>>

\* crawler.crawl_eastmoney_newstock() is called
CrawlEastmoneyNewstock ==
    /\ pc = "serving"
    /\ last = Idle
    /\ \E fetch \in RowFetchOutcomes :
         \E b \in BulkOutcomes(Len(ParsedRows(fetch.items))) :
            last' = [op |-> "crawl", adapter |-> "crawl_eastmoney_newstock",
                     fetch |-> fetch,
                     res |-> crawl_eastmoney_newstock([fetch |-> fetch, b |-> b])]
    /\ UNCHANGED <<procVars, schemaVars, schedVars>>

\* crawler.crawl_eastmoney_industry(industry) is called
CrawlEastmoneyIndustry ==
    /\ pc = "serving"
    /\ last = Idle
    /\ \E industry \in industries, fetch \in ArticleFetchOutcomes :
         \E b \in BulkOutcomes(Len(fetch.items)) :
            last' = [op |-> "crawl", adapter |-> "crawl_eastmoney_industry",
                     fetch |-> fetch,
                     res |-> crawl_eastmoney_industry(industry,
                                                      [fetch |-> fetch, b |-> b])]
    /\ UNCHANGED <<procVars, schemaVars, schedVars>>

\* k copies of one document
Rep(doc, k) == [i \in 1..k |-> doc]

\* the news items a search of sina_live_data returned: pos items that match
\* a positive keyword only, neg that match a negative keyword only, and
\* possibly one that matches both, one that matches none and one whose
\* content is not a string
NewsData(pos, neg, both, none, nonstr) ==
    Rep(Doc(TRUE, {"lihao"}), pos) \o Rep(Doc(TRUE, {"xiadie"}), neg)
      \o Rep(Doc(TRUE, {"tupo", "likong"}), both) \o Rep(Doc(TRUE, {}), none)
      \o Rep(Doc(FALSE, {}), nonstr)

\* generate_pre_market_strategy calls self._analyze_market_sentiment(news_data)
AnalyzeMarketSentiment ==
    /\ pc = "serving"
    /\ last = Idle
    /\ \E pos \in 0..MaxCount, neg \in 0..MaxCount, both \in 0..1, none \in 0..1,
          nonstr \in 0..1 :
         \E data \in {NewsData(pos, neg, both, none, nonstr)} :
            last' = [op |-> "sentiment", positive |-> pos + both,
                     negative |-> neg + both, n |-> Len(data),
                     res |-> _analyze_market_sentiment(data)]
    /\ UNCHANGED <<procVars, schemaVars, schedVars>>

NextApi ==
    \/ BulkInsert \/ Search \/ ExecuteTask \/ GetPreMarketStrategy \/ SearchData
    \/ CrawlSinaLive \/ CrawlEastmoneyNewstock \/ CrawlEastmoneyIndustry
    \/ AnalyzeMarketSentiment
    \/ Return

SpecApi == InitApi /\ [][NextApi]_vars

----------------------------------------------------------------------------
(* Claims about the gateway and the API, checked under SpecApi *)

\* C1: a bulk_insert of a non-empty document list returns a pair of counts
\* (successCount, failedCount) that add up to the number of documents; on a
\* transport exception the pair is (0, len(documents)); no exception leaves
\* the gateway.
C1_BulkCountsAddUp ==
    (last.op = "bulk_insert" /\ last.n > 0) =>
        /\ ~last.res.raised
        /\ last.res.ret.t = "tuple"
        /\ last.res.ret.first.t = "int"
        /\ last.res.ret.second.t = "int"
        /\ last.res.ret.first.v + last.res.ret.second.v = last.n
        /\ (last.out.exc => last.res.ret = PyTuple(PyInt(0), PyInt(last.n)))

\* C2: bulk_insert with zero documents makes no call to the store and reports
\* the result (0,0).
C2_EmptyBulkReportsZeroZero ==
    (last.op = "bulk_insert" /\ last.n = 0) =>
        /\ last.res.calls = 0
        /\ last.res.ret = PyTuple(PyInt(0), PyInt(0))

\* a failed read seen as a read that found nothing
AsNoData(out) == IF out.kind = "ok" THEN out ELSE [kind |-> "ok", hits |-> <<>>]
Degraded(env) == [env EXCEPT !.s1 = AsNoData(env.s1), !.s2 = AsNoData(env.s2)]

\* C4: search never propagates a storage error: on every failure of the read
\* it returns the empty list, and its callers (the search endpoint, the
\* analysis routines behind execute_task) answer exactly as they do when the
\* store holds no data.
C4_SearchNeverPropagates ==
    /\ (last.op = "search") =>
          /\ ~last.res.raised
          /\ (last.out.kind # "ok" => last.res.ret = <<>>)
    /\ (last.op = "search_data" /\ last.hasJson /\ last.out.kind # "ok") =>
          last.res = [status |-> 200, success |-> TRUE, data |-> <<>>, count |-> 0]
    /\ (last.op = "execute_task" /\ last.task_name \in DOMAIN tasks) =>
          last.res = execute_task(last.task_name, Degraded(last.env))

C4_Witness ==
    /\ last.op = "execute_task"
    /\ last.task_name = "closing"
    /\ last.env.s1.kind = "exc"
    /\ last.res.status = 200
    /\ last.res.data.total_news = 0

KnownTasks == {"pre_market", "opening_news", "dragon_tiger", "northbound", "closing"}

RoutineOf(task_name) ==
    CASE task_name = "pre_market"   -> "generate_pre_market_strategy"
      [] task_name = "opening_news" -> "analyze_opening_news"
      [] task_name = "dragon_tiger" -> "analyze_dragon_tiger_list"
      [] task_name = "northbound"   -> "analyze_northbound_capital"
      [] task_name = "closing"      -> "analyze_closing_summary"

\* C5: execute_task answers 400 with success false and runs no routine for a
\* task name outside the five known ones, 500 with success false when the
\* routine of a known name raises, and success true with the artifact when it
\* returns.
C5_ExecuteTaskStatus ==
    (last.op = "execute_task") =>
        IF last.task_name \notin KnownTasks
        THEN /\ last.res.status = 400
             /\ ~last.res.success
             /\ last.res.ran = <<>>
             /\ last.res.run.writes = <<>>
        ELSE LET outcome == Invoke(RoutineOf(last.task_name), last.env)
             IN  /\ last.res.ran = <<RoutineOf(last.task_name)>>
                 /\ outcome.raised => (last.res.status = 500 /\ ~last.res.success)
                 /\ ~outcome.raised => /\ last.res.status = 200
                                       /\ last.res.success
                                       /\ last.res.data = outcome.ret

C5_Witness ==
    /\ last.op = "execute_task"
    /\ last.task_name = "opening_news"
    /\ last.res.status = 500
    /\ ~last.res.success

\* C6: every invocation of an analysis routine issues exactly one bulk write
\* of exactly one artifact document and returns that artifact, whatever the
\* read returned and whether or not the write succeeded.
C6_OneArtifactPerInvocation ==
    (last.op = "execute_task" /\ last.task_name \in KnownTasks) =>
        /\ ~last.res.run.raised
        /\ Len(last.res.run.writes) = 1
        /\ Len(last.res.run.writes[1].docs) = 1
        /\ last.res.run.ret = last.res.run.writes[1].docs[1]

----------------------------------------------------------------------------
(* Claims about schema creation, checked under SpecSchema *)

\* C3 as stated: from any set of existing collections, running
\* _create_indices twice leaves exactly the collections that running it once
\* leaves, the five fixed ones among them, the second run creates nothing that
\* exists, and no error is surfaced.
C3_TwiceSameAsOnce ==
    (schemaRuns >= 2 /\ pc = "setup") =>
        /\ existingAfter1 = existing0 \cup Fixed
        /\ existing = existingAfter1
        /\ badCreates = {}
        /\ ~surfaced

\* C3 amended: no run surfaces an error or issues a create call for a
\* collection that exists, and no run removes a collection or adds one outside
\* the five; when no store call of the first run fails, the first run leaves
\* the collections of the start plus the five fixed ones and every later run
\* leaves exactly those.
C3_IdempotentWhenFirstRunSucceeds ==
    /\ ~surfaced
    /\ badCreates = {}
    /\ existing0 \subseteq existing
    /\ existing \subseteq existing0 \cup Fixed
    /\ (schemaRuns >= 1 /\ ~failed1) =>
          /\ existingAfter1 = existing0 \cup Fixed
          /\ existing = existingAfter1

C3_Witness ==
    /\ schemaRuns = 2
    /\ pc = "setup"
    /\ ~failed1
    /\ existing0 = {"analysis_results", "other_index"}
    /\ existing = Fixed \cup {"other_index"}

----------------------------------------------------------------------------
(* Claims about the job registry, checked under SpecRegistry *)

\* C7: registering a job whose job_id is already in the registry replaces the
\* prior binding: the registry keeps its number of jobs, job ids stay unique,
\* the id is bound to the new action, and the registration raises no error.
C7_ReRegisterReplaces ==
    lastReg.hadId =>
        /\ ~lastReg.error
        /\ RegistrySize = lastReg.sizeBefore
        /\ RegistrySize = Cardinality(RegistryIds)
        /\ BoundFuncs(lastReg.id) = {lastReg.func}

----------------------------------------------------------------------------
(* Claims about the scheduler and startup, checked under Spec *)

\* C8: a job whose action has failed stays in the job store with a next run
\* time (it is neither removed nor paused), the scheduler's next wake-up never
\* passes over a trigger time of the job, and at that trigger time the job is
\* started again, whatever failed before.
C8_FailedJobFiresAgain ==
    [][ \A j \in failedJobs' :
          /\ j \in DOMAIN jobstore'
          /\ jobstore'[j].next_run_time \in 0..(Slots - 1)
          /\ (j \in failedJobs /\ j \notin running /\ now' # now) =>
                /\ \A t \in 0..(Slots - 1) :
                      Dist(now, t) < Dist(now, now') => ~DueAt(jobstore[j], t)
                /\ DueAt(jobstore[j], now') => j \in running'
      ]_vars

C8_Witness ==
    /\ "opening_news" \in failedJobs
    /\ "opening_news" \in running
    /\ "pre_market_strategy" \in failedJobs
    /\ jobstore["opening_news"].next_run_time = 19

\* C9: job actions run one at a time: never are two scheduled job actions
\* executing at once.
C9_OneJobAtATime == Cardinality(running) <= 1

\* C10: _create_indices runs once per process and is over before the
\* scheduler starts, before a job fires and before the API serves a request;
\* nothing of these happens while the schema is being created, and a failed
\* connection check aborts startup before the schema, the scheduler or the
\* API.
C10_SchemaBeforeSchedulerAndApi ==
    /\ schemaRuns <= 1
    /\ (schedState = "running" \/ pc = "serving" \/ served \/ running # {}) =>
          (schemaRuns = 1 /\ ci > Len(indices))
    /\ pc \in {"boot", "create_indices"} =>
          (schedState = "stopped" /\ running = {} /\ ~served)
    /\ pc = "aborted" =>
          /\ schemaRuns = 0
          /\ ci = 1
          /\ existing = existing0
          /\ schedState = "stopped"
          /\ running = {}
          /\ ~served

C10_Witness ==
    /\ path = "start"
    /\ pc = "serving"
    /\ served
    /\ running # {}
    /\ schemaRuns = 1
    /\ existing0 # Fixed

----------------------------------------------------------------------------
(* Claims about the crawlers, checked under SpecApi *)

\* an item the adapter has to skip: a news entry without one of its two
\* sub-elements, a listings row of fewer than six cells; an article element
\* is taken with or without its title
ValidItem(adapter, item) ==
    CASE adapter = "crawl_sina_live" -> item.wellformed
      [] adapter = "crawl_eastmoney_newstock" -> item.ncols >= 6
      [] adapter = "crawl_eastmoney_industry" -> TRUE

ValidCount(adapter, items) ==
    Cardinality({i \in DOMAIN items : ValidItem(adapter, items[i])})

AdapterIndex(adapter) ==
    CASE adapter = "crawl_sina_live" -> "sina_live_data"
      [] adapter = "crawl_eastmoney_newstock" -> "eastmoney_newstock_data"
      [] adapter = "crawl_eastmoney_industry" -> "eastmoney_industry_data"

\* C11: for each of the three adapters, a crawl whose fetch fails or whose
\* page has no valid item returns an empty list, makes no bulk write and
\* raises nothing; an item that cannot be parsed is skipped, and every valid
\* item of the crawl is returned and written, all in one bulk call to the
\* adapter's collection.
C11_CrawlIsolatesFailures ==
    last.op = "crawl" =>
       LET n == ValidCount(last.adapter, last.fetch.items)
       IN  /\ ~last.res.raised
           /\ Len(last.res.ret) = n
           /\ (last.fetch.kind = "fail" \/ n = 0) =>
                 /\ last.res.ret = <<>>
                 /\ last.res.writes = <<>>
           /\ n > 0 =>
                 /\ Len(last.res.writes) = 1
                 /\ last.res.writes[1].index = AdapterIndex(last.adapter)
                 /\ last.res.writes[1].docs = last.res.ret

\* a news crawl of a malformed entry followed by a well-formed one: one
\* document returned, one bulk call
C11_Witness ==
    /\ last.op = "crawl"
    /\ last.adapter = "crawl_sina_live"
    /\ last.fetch.kind = "ok"
    /\ Len(last.fetch.items) = 2
    /\ ~last.fetch.items[1].wellformed
    /\ last.fetch.items[2].wellformed
    /\ Len(last.res.ret) = 1
    /\ Len(last.res.writes) = 1

----------------------------------------------------------------------------
(* Claims about the sentiment label, checked under SpecApi *)

\* C12: the sentiment label depends on the counts of positive-matching and
\* negative-matching items only: bullish exactly when positive > 1.5 *
\* negative, bearish exactly when not bullish and negative > 1.5 * positive,
\* neutral otherwise; the two conditions never hold together; an empty item
\* list gives neutral; (10,4) is bullish, (4,10) bearish, (5,4) neutral.
C12_SentimentLabelByCounts ==
    (last.op = "sentiment" /\ ~last.res.raised) =>
       LET p == last.positive
           n == last.negative
           bull == 2 * p > 3 * n
           bear == 2 * n > 3 * p
       IN  /\ ~(bull /\ bear)
           /\ (last.res.value = "bullish") <=> bull
           /\ (last.res.value = "bearish") <=> (~bull /\ bear)
           /\ (last.res.value = "neutral") <=> (~bull /\ ~bear)
           /\ last.n = 0 => last.res.value = "neutral"
           /\ (p = 10 /\ n = 4) => last.res.value = "bullish"
           /\ (p = 4 /\ n = 10) => last.res.value = "bearish"
           /\ (p = 5 /\ n = 4) => last.res.value = "neutral"

\* ten positive-matching items against four negative-matching ones
C12_Witness ==
    /\ last.op = "sentiment"
    /\ ~last.res.raised
    /\ last.positive = 10
    /\ last.negative = 4
    /\ last.res.value = "bullish"

----------------------------------------------------------------------------
(* Claims about the startup paths, checked under Spec *)

\* C13: on every startup path, FinanceDataSystem.start and
\* start_production.main, once the API is serving requests the background
\* scheduler is running beside it, with the six jobs in its job store, so
\* that each job fires at its trigger time.
C13_SchedulerRunsWhileServing ==
    pc = "serving" =>
       /\ schedState = "running"
       /\ DOMAIN jobstore = JobIds

====
